---- MODULE Spec2Model ----
(***************************************************************************)
(* Employee QR badge service (src/app.py): a Flask application with four   *)
(* JSON handlers (generate_qr, scan_data, get_records, search_employee)    *)
(* over two stores, a MongoDB collection and the flat file employees.json. *)
(*                                                                         *)
(* Python strings are modelled as sequences of one-character strings, so   *)
(* that split, strip, startswith, lower and the substring test are         *)
(* computed as Python computes them.                                       *)
(*                                                                         *)
(* `if employees:` is modelled as the code intends it, "a collection is    *)
(* connected" (the truth value of the module-level handle).                *)
(***************************************************************************)
EXTENDS Integers, Sequences, FiniteSets, TLC

\* ------------------------------------------------------------------ bounds

\* The clock runs from tick 0 to tick MaxNow.
MaxNow == 3
\* generate_qr is asked for no more once MaxIssued distinct badges are handed out.
MaxIssued == 2
\* Clock ticks per wall-clock second: strftime('%Y%m%d%H%M%S') cannot tell
\* apart two instants inside one second.
TicksPerSecond == 2
\* Page numbers asked of get_records: 1..MaxPage.
MaxPage == 2
\* Page sizes asked of get_records: 0..MaxPerPage.
MaxPerPage == 2

\* search_employee's cap (.limit(10), len(results) >= 10).
SearchLimit == 10
\* get_records' page size when the request names none.
DefaultPerPage == 5

\* ----------------------------------------------------------- Python strings

Whitespace == {" ", "\n", "\t", "\r"}

MinOf(S) == CHOOSE x \in S : \A y \in S : x <= y

\* s[i:i+len(p)] == p
IsPrefixAt(s, p, i) ==
    /\ i + Len(p) - 1 <= Len(s)
    /\ \A j \in 1..Len(p) : s[i + j - 1] = p[j]

\* str.startswith
startswith(s, p) == IsPrefixAt(s, p, 1)

\* str.find, 1-based; 0 when absent
find(s, p) ==
    LET hits == {k \in 1..(Len(s) - Len(p) + 1) : IsPrefixAt(s, p, k)}
    IN  IF hits = {} THEN 0 ELSE MinOf(hits)

\* str.split(sep): the pieces between the occurrences of sep, left to right
RECURSIVE split(_, _)
split(s, sep) ==
    LET k == find(s, sep)
    IN  IF k = 0 THEN <<s>>
        ELSE <<SubSeq(s, 1, k - 1)>> \o split(SubSeq(s, k + Len(sep), Len(s)), sep)

\* str.strip(): from the first to the last character that is not whitespace
strip(s) ==
    IF \A i \in 1..Len(s) : s[i] \in Whitespace THEN <<>>
    ELSE LET first == CHOOSE i \in 1..Len(s) :
                          s[i] \notin Whitespace
                              /\ \A j \in 1..(i - 1) : s[j] \in Whitespace
             last == CHOOSE i \in 1..Len(s) :
                         s[i] \notin Whitespace
                             /\ \A j \in (i + 1)..Len(s) : s[j] \in Whitespace
         IN  SubSeq(s, first, last)

LowerChar(c) ==
    CASE c = "A" -> "a" [] c = "B" -> "b" [] c = "E" -> "e" [] c = "I" -> "i"
      [] c = "D" -> "d" [] c = "J" -> "j" [] c = "L" -> "l" [] c = "M" -> "m"
      [] c = "N" -> "n" [] c = "O" -> "o" [] c = "P" -> "p" [] c = "Q" -> "q"
      [] c = "S" -> "s" [] OTHER -> c

\* str.lower()
lower(s) == [i \in 1..Len(s) |-> LowerChar(s[i])]

\* Python's `sub in s`
Contains(sub, s) == \E i \in 1..(Len(s) - Len(sub) + 1) : IsPrefixAt(s, sub, i)

\* MongoDB {'$regex': pattern, '$options': 'i'}: an unanchored, case-insensitive
\* regular-expression search.  Of the metacharacters only "." (any character but a
\* line break) is interpreted; the search terms of this model hold none.
RegexSearch(pattern, value) ==
    \E i \in 1..(Len(value) - Len(pattern) + 1) :
        \A j \in 1..Len(pattern) :
            \/ pattern[j] = "." /\ value[i + j - 1] # "\n"
            \/ pattern[j] # "." /\ LowerChar(pattern[j]) = LowerChar(value[i + j - 1])

\* ------------------------------------------------------------------- values

None == [none |-> TRUE]

Digit(n) == <<"0", "1", "2", "3", "4", "5", "6", "7", "8", "9">>[n + 1]

HexDigits == {"0", "1", "2", "3", "4", "5", "6", "7", "8", "9",
              "a", "b", "c", "d", "e", "f"}

\* The wall-clock second of a tick.
Second(t) == t \div TicksPerSecond

\* datetime.strftime('%Y%m%d%H%M%S'): 14 digits, one value per second.  The clock
\* starts at 2024-01-01 12:00:00.
strftime(t) ==
    <<"2", "0", "2", "4", "0", "1", "0", "1", "1", "2", "0", "0", "0">>
        \o <<Digit(Second(t))>>

\* str(ObjectId): 24 hexadecimal digits, fresh per inserted document.
ObjectIdStr(n) ==
    <<"6", "5", "a", "1", "b", "2", "c", "3", "d", "4", "e", "5", "f", "6", "a",
      "7", "b", "8", "c", "9", "d", "0", "e">> \o <<Digit(n)>>

\* bson.ObjectId(s) raises InvalidId unless s is 24 hexadecimal digits.
IsObjectId(s) == Len(s) = 24 /\ \A i \in 1..Len(s) : s[i] \in HexDigits

\* ----------------------------------------------------------------- inputs

\* The forms posted to generate_qr (request.form).  employee_id is optional: the
\* empty string stands for a form without it.  The second form's department carries
\* a line break followed by a label of the QR text.
Forms ==
    { [name |-> <<"A", "l">>, dob |-> <<"1", "9", "9", "0">>,
       joining_date |-> <<"2", "0", "2", "0">>, post |-> <<"Q", "A">>,
       department |-> <<"L", "a", "b">>, employee_id |-> <<>>],
      [name |-> <<"B", "o">>, dob |-> <<"1", "9", "9", "1">>,
       joining_date |-> <<"2", "0", "2", "1">>, post |-> <<"Q", "A">>,
       department |-> <<"O", "p", "s", "\n", "E", "m", "p", "l", "o", "y", "e", "e",
                        " ", "I", "D", ":", " ", "E", "2">>,
       employee_id |-> <<>>],
      [name |-> <<"A", "l">>, dob |-> <<"1", "9", "9", "0">>,
       joining_date |-> <<"2", "0", "2", "0">>, post |-> <<"Q", "A">>,
       department |-> <<"O", "p", "s">>, employee_id |-> <<"E", "2">>] }

\* A form that lacks a required field: request.form['department'] raises.
IncompleteForms ==
    { [name |-> <<"A", "l">>, dob |-> <<"1", "9", "9", "0">>,
       joining_date |-> <<"2", "0", "2", "0">>, post |-> <<"Q", "A">>,
       employee_id |-> <<>>] }

RequiredFields == {"name", "dob", "joining_date", "post", "department"}

\* random.randint(100, 999)
RandomSuffixes == {<<"1", "0", "0">>}

\* get_records' search and search_employee's q.
SearchTerms == {<<>>, <<"B">>}

FilterFields == {"name", "employee_id", "department", "post", "all"}

\* Scanned texts that no generate_qr call built.
ForeignTexts ==
    { <<"h", "e", "l", "l", "o">>,
      <<"E", "m", "p", "l", "o", "y", "e", "e", " ", "I", "D", ":", " ", "E", "2">> }

\* Outcomes of reading employees.json: the read succeeds, or open/json.load raises.
ReadOutcomes == {"ok", "raises"}

\* Outcomes of writing employees.json: the write succeeds; open(..., 'w') raises
\* and the file is untouched; or open has truncated the file and json.dump raises.
WriteOutcomes == {"ok", "open_raises", "dump_raises"}

\* ------------------------------------------------------------------- state

VARIABLES
    employees,   \* the module-level handle: TRUE when a MongoDB collection is connected
    collection,  \* the documents of db['employees'], in insertion order
    file,        \* employees.json: [valid, list]; not valid = no JSON document
    now,         \* the wall clock, in ticks
    resp,        \* the response to the last request
    faulted,     \* whether a backend call of the last request raised
    issued,      \* the badges handed out so far: the fields and record_id on each
    threads      \* the request each server thread is handling, and how far it is

vars == <<employees, collection, file, now, resp, faulted, issued, threads>>

NoResponse == [op |-> "none", success |-> TRUE]

\* The server threads of two requests handled at the same time (app.run serves each
\* request in a thread of its own).
Threads == {1, 2}

\* A thread that handles no request.
Idle == [pc |-> "idle"]

\* What a reader of employees.json gets from its current content.
StoredList == IF file.valid THEN file.list ELSE <<>>

\* ------------------------------------------------------------ file backend

\* get_employees_collection(): the parsed list, [] when the file is missing and
\* [] when anything raises.
get_employees_collection(rd) ==
    IF rd = "ok" /\ file.valid THEN file.list ELSE <<>>

\* save_employees_collection(data): the content of the file afterwards.
save_employees_collection(data, wr) ==
    CASE wr = "ok" -> [valid |-> TRUE, list |-> data]
      [] wr = "open_raises" -> file
      [] OTHER -> [valid |-> FALSE, list |-> <<>>]

\* The new record written alone, the list read from the file dropped.
append_to_nothing(employees_list, employee_data) == <<employee_data>>

\* employees_list.append(employee_data)
append(employees_list, employee_data) == Append(employees_list, employee_data)

\* next((emp for emp in employees_list if emp.get(key) == value), None)
NextMatch(employees_list, key, value) ==
    LET hits == {i \in 1..Len(employees_list) : employees_list[i][key] = value}
    IN  IF hits = {} THEN None ELSE employees_list[MinOf(hits)]

\* ----------------------------------------------------------- Mongo backend

\* employees.find_one({key: value}): a matching document, None when there is none.
\* MongoDB promises no order among several matches.
find_one(key, value) ==
    LET hits == {i \in 1..Len(collection) : collection[i][key] = value}
    IN  IF hits = {} THEN {None} ELSE {collection[i] : i \in hits}

\* -------------------------------------------------------------- generate_qr

\* generate_employee_id(): EMP + timestamp + random suffix
generate_employee_id(t, random_suffix) ==
    <<"E", "M", "P">> \o strftime(t) \o random_suffix

\* The id generate_qr gives a record of the file backend.
JsonRecordId(t) == <<"J", "S", "O", "N">> \o strftime(t)

\* The text generate_qr encodes in the QR image.
qr_data(name, employee_id, post, department, record_id) ==
    strip(<<"\n", "E", "m", "p", "l", "o", "y", "e", "e", " ", "V", "e", "r", "i",
            "f", "i", "c", "a", "t", "i", "o", "n", ":", "\n", "N", "a", "m", "e",
            ":", " ">> \o name
          \o <<"\n", "E", "m", "p", "l", "o", "y", "e", "e", " ", "I", "D", ":", " ">>
          \o employee_id
          \o <<"\n", "P", "o", "s", "t", ":", " ">> \o post
          \o <<"\n", "D", "e", "p", "a", "r", "t", "m", "e", "n", "t", ":", " ">>
          \o department
          \o <<"\n", "R", "e", "c", "o", "r", "d", " ", "I", "D", ":", " ">>
          \o record_id
          \o <<"\n", " ", " ", " ", " ", " ", " ", " ", " ">>)

\* The QR text on a badge handed out.
BadgeText(b) == qr_data(b.name, b.employee_id, b.post, b.department, b.record_id)

\* The success response of generate_qr and the badge it hands out.
GenerateQrSuccess(employee_data, record_id) ==
    /\ resp' = [op |-> "generate_qr", success |-> TRUE,
                qr_code |-> qr_data(employee_data.name, employee_data.employee_id,
                                    employee_data.post, employee_data.department,
                                    record_id),
                employee_data |-> employee_data, record_id |-> record_id]
    /\ issued' = issued \cup {[name |-> employee_data.name,
                               employee_id |-> employee_data.employee_id,
                               post |-> employee_data.post,
                               department |-> employee_data.department,
                               record_id |-> record_id]}

\* The record generate_qr builds from the posted form at time t.
EmployeeData(form, t, random_suffix) ==
    [name |-> form.name, dob |-> form.dob, joining_date |-> form.joining_date,
     post |-> form.post, department |-> form.department,
     employee_id |-> IF form.employee_id # <<>> THEN form.employee_id
                     ELSE generate_employee_id(t, random_suffix),
     created_at |-> t, _id |-> <<>>]

\* The answer of generate_qr's except clause.
GenerateQrError == [op |-> "generate_qr", success |-> FALSE]

generate_qr ==
    /\ now < MaxNow
    /\ Cardinality(issued) < MaxIssued
    /\ \E form \in Forms \cup IncompleteForms, random_suffix \in RandomSuffixes :
        IF ~(RequiredFields \subseteq DOMAIN form)
        THEN /\ resp' = GenerateQrError
             /\ faulted' = FALSE
             /\ UNCHANGED <<collection, file, issued>>
        ELSE
        LET employee_data == EmployeeData(form, now, random_suffix)
        IN  IF employees
            THEN \E insert_raises \in BOOLEAN :
                   IF insert_raises
                   THEN /\ resp' = GenerateQrError
                        /\ faulted' = TRUE
                        /\ UNCHANGED <<collection, file, issued>>
                   ELSE LET record_id == ObjectIdStr(Len(collection))
                            doc == [employee_data EXCEPT !._id = record_id]
                        IN  /\ collection' = Append(collection, doc)
                            /\ GenerateQrSuccess(doc, record_id)
                            /\ faulted' = FALSE
                            /\ UNCHANGED file
            ELSE \E rd \in ReadOutcomes, wr \in WriteOutcomes :
                   LET employees_list == get_employees_collection(rd)
                       record_id == JsonRecordId(now)
                       doc == [employee_data EXCEPT !._id = record_id]
                   IN  /\ file' = save_employees_collection(
                                      append(employees_list, doc), wr)
                       /\ GenerateQrSuccess(doc, record_id)
                       /\ faulted' = (rd # "ok" \/ wr # "ok")
                       /\ UNCHANGED collection
    /\ now' = now + 1
    /\ UNCHANGED <<employees, threads>>

\* ---------------------------------------------------------------- scan_data

\* A value that may be absent (Python's None).
Absent == [found |-> FALSE, value |-> <<>>]

Found(v) == [found |-> TRUE, value |-> v]

\* Python's truth value of an optional string: None and '' are false.
Truthy(x) == x.found /\ x.value # <<>>

\* scan_data's loop over the lines of the scanned text, from line i on, with ids the
\* values found so far.
RECURSIVE ParseLines(_, _, _)
ParseLines(lines, i, ids) ==
    IF i > Len(lines) THEN ids
    ELSE LET line == lines[i]
             record_label == <<"R", "e", "c", "o", "r", "d", " ", "I", "D", ":">>
             employee_label ==
                 <<"E", "m", "p", "l", "o", "y", "e", "e", " ", "I", "D", ":">>
         IN  ParseLines(lines, i + 1,
                 IF startswith(line, record_label)
                 THEN [ids EXCEPT !.record_id =
                           Found(strip(split(line, record_label)[2]))]
                 ELSE IF startswith(line, employee_label)
                 THEN [ids EXCEPT !.employee_id =
                           Found(strip(split(line, employee_label)[2]))]
                 ELSE ids)

\* The record_id and employee_id scan_data extracts from a scanned text.
ParseScan(scanned_data) ==
    ParseLines(split(scanned_data, <<"\n">>), 1,
               [record_id |-> Absent, employee_id |-> Absent])

\* scan_data answering with the record as found instead of secure_data.
secure_data_unredacted(employee_data) == employee_data

\* The fields scan_data lets out of a matched record.
secure_data(employee_data) ==
    [name |-> employee_data.name,
     employee_id |-> employee_data.employee_id,
     post |-> employee_data.post,
     department |-> employee_data.department,
     joining_date |-> employee_data.joining_date]

\* A lookup's outcome: the record found (or None) and whether a backend call raised.
Outcome(employee_data, raised) == [employee_data |-> employee_data, raised |-> raised]

\* scan_data's first lookup, by record_id: its possible outcomes.  Nothing is looked
\* up unless a collection is connected; a record_id of the file backend is looked up
\* in employees.json, any other in MongoDB, and whatever raises there is swallowed.
LookupByRecordId(record_id) ==
    IF Truthy(record_id) /\ employees
    THEN IF startswith(record_id.value, <<"J", "S", "O", "N">>)
         THEN {Outcome(NextMatch(get_employees_collection(rd), "_id",
                                 record_id.value), rd # "ok") : rd \in ReadOutcomes}
         ELSE IF ~IsObjectId(record_id.value)
         THEN {Outcome(None, FALSE)}
         ELSE {Outcome(doc, FALSE) : doc \in find_one("_id", record_id.value)}
                  \cup {Outcome(None, TRUE)}
    ELSE {Outcome(None, FALSE)}

\* scan_data's second lookup, by employee_id, made when the first found nothing: in
\* MongoDB, and in employees.json when MongoDB raises.
LookupByEmployeeId(employee_id) ==
    IF Truthy(employee_id) /\ employees
    THEN {Outcome(doc, FALSE) : doc \in find_one("employee_id", employee_id.value)}
             \cup {Outcome(NextMatch(get_employees_collection(rd), "employee_id",
                                     employee_id.value), TRUE) : rd \in ReadOutcomes}
    ELSE {Outcome(None, FALSE)}

\* The response of scan_data for a lookup result.
ScanResponse(scanned_data, employee_data) ==
    [op |-> "scan_data", success |-> TRUE, scanned_data |-> scanned_data,
     employee_data |-> IF employee_data # None THEN secure_data(employee_data)
                       ELSE None]

scan_data ==
    /\ \E scanned_data \in {BadgeText(b) : b \in issued} \cup ForeignTexts :
        LET ids == ParseScan(scanned_data)
        IN  \E first \in LookupByRecordId(ids.record_id) :
              IF first.employee_data # None
              THEN /\ resp' = ScanResponse(scanned_data, first.employee_data)
                   /\ faulted' = first.raised
              ELSE \E second \in LookupByEmployeeId(ids.employee_id) :
                     /\ resp' = ScanResponse(scanned_data, second.employee_data)
                     /\ faulted' = (first.raised \/ second.raised)
    /\ UNCHANGED <<employees, collection, file, now, issued, threads>>

\* -------------------------------------------------------------- get_records

SearchFields == {"name", "employee_id", "department", "post"}

\* list.sort(key=created_at, reverse=True) and cursor.sort('created_at', -1):
\* newest first; records of equal created_at keep their order.
sort_created_at_desc(list) ==
    LET pos(i) == 1 + Cardinality({j \in 1..Len(list) :
                        \/ list[j].created_at > list[i].created_at
                        \/ list[j].created_at = list[i].created_at /\ j < i})
    IN  [k \in 1..Len(list) |-> list[CHOOSE i \in 1..Len(list) : pos(i) = k]]

\* skip computed as if pages were numbered from 0.
SkipPagesFromZero(page, per_page) == page * per_page

\* skip = (page - 1) * per_page
Skip(page, per_page) == (page - 1) * per_page

\* Python's list[start:stop], 0 <= start
Slice(list, start, stop) ==
    SubSeq(list, start + 1, IF stop < Len(list) THEN stop ELSE Len(list))

\* cursor.skip(skip).limit(n); limit(0) is no limit
SkipLimit(list, skip, n) ==
    IF n = 0 THEN Slice(list, skip, Len(list)) ELSE Slice(list, skip, skip + n)

\* Whether a document matches the query get_records builds for MongoDB.
MongoRecordsQuery(search, filter_by, doc) ==
    IF search = <<>> THEN TRUE
    ELSE IF filter_by \in SearchFields THEN RegexSearch(search, doc[filter_by])
    ELSE \E f \in SearchFields : RegexSearch(search, doc[f])

\* Whether get_records' JSON fallback keeps a record.
JsonRecordsFilter(search, filter_by, emp) ==
    IF search = <<>> THEN TRUE
    ELSE \/ Contains(lower(search), lower(emp.name))
         \/ Contains(lower(search), lower(emp.employee_id))
         \/ Contains(lower(search), lower(emp.department))
         \/ Contains(lower(search), lower(emp.post))

\* The records get_records matches before it sorts and slices them.
RecordsMatched(search, filter_by, rd) ==
    IF employees
    THEN SelectSeq(collection, LAMBDA doc : MongoRecordsQuery(search, filter_by, doc))
    ELSE SelectSeq(get_employees_collection(rd),
                   LAMBDA emp : JsonRecordsFilter(search, filter_by, emp))

\* The page get_records returns.
RecordsPage(page, per_page, search, filter_by, rd) ==
    LET sorted == sort_created_at_desc(RecordsMatched(search, filter_by, rd))
        skip == Skip(page, per_page)
    IN  IF employees THEN SkipLimit(sorted, skip, per_page)
        ELSE Slice(sorted, skip, skip + per_page)

\* The response of get_records.  total_pages divides by per_page: with per_page = 0
\* the handler's except answers success false.
GetRecordsResponse(page, per_page, search, filter_by, rd, db_raises) ==
    IF (employees /\ db_raises) \/ per_page = 0
    THEN [op |-> "get_records", success |-> FALSE,
          search |-> search, filter_by |-> filter_by]
    ELSE LET total == Len(RecordsMatched(search, filter_by, rd))
             total_pages == (total + per_page - 1) \div per_page
         IN  [op |-> "get_records", success |-> TRUE,
              search |-> search, filter_by |-> filter_by,
              employees |-> RecordsPage(page, per_page, search, filter_by, rd),
              pagination |-> [page |-> page, per_page |-> per_page, total |-> total,
                              total_pages |-> total_pages,
                              has_next |-> page < total_pages,
                              has_prev |-> page > 1]]

\* The requests made of get_records: every page and page size without a search, and
\* every search term and field at the default page size.
RecordsRequests ==
    {[page |-> page, per_page |-> per_page, search |-> <<>>, filter_by |-> "all"] :
         page \in 1..MaxPage, per_page \in 0..MaxPerPage}
    \cup {[page |-> 1, per_page |-> DefaultPerPage, search |-> search,
           filter_by |-> filter_by] :
         search \in SearchTerms \ {<<>>}, filter_by \in FilterFields}

\* The backend faults a request may meet: MongoDB raising when a collection is
\* connected, the read of employees.json failing otherwise.
BackendFaults ==
    IF employees THEN {[rd |-> "ok", db_raises |-> b] : b \in BOOLEAN}
    ELSE {[rd |-> rd, db_raises |-> FALSE] : rd \in ReadOutcomes}

get_records ==
    /\ \E req \in RecordsRequests, fault \in BackendFaults :
        /\ resp' = GetRecordsResponse(req.page, req.per_page, req.search,
                                      req.filter_by, fault.rd, fault.db_raises)
        /\ faulted' = (fault.db_raises \/ fault.rd # "ok")
    /\ UNCHANGED <<employees, collection, file, now, issued, threads>>

\* ---------------------------------------------------------- search_employee

\* Whether a document matches the query search_employee builds for MongoDB.
MongoSearchQuery(query, field, doc) ==
    IF field = "name" THEN RegexSearch(query, doc.name)
    ELSE IF field = "employee_id" THEN RegexSearch(query, doc.employee_id)
    ELSE \E f \in SearchFields : RegexSearch(query, doc[f])

\* Whether search_employee's JSON fallback appends a record to its results.
JsonSearchFilter(query, field, emp) ==
    \/ field = "name" /\ Contains(lower(query), lower(emp.name))
    \/ field = "employee_id" /\ Contains(lower(query), lower(emp.employee_id))
    \/ /\ field = "all"
       /\ \/ Contains(lower(query), lower(emp.name))
          \/ Contains(lower(query), lower(emp.employee_id))
          \/ Contains(lower(query), lower(emp.department))
          \/ Contains(lower(query), lower(emp.post))

\* The results of search_employee for a non-empty query.
SearchResults(query, field, rd) ==
    IF employees
    THEN SkipLimit(sort_created_at_desc(
             SelectSeq(collection, LAMBDA doc : MongoSearchQuery(query, field, doc))),
             0, SearchLimit)
    ELSE Slice(SelectSeq(get_employees_collection(rd),
                         LAMBDA emp : JsonSearchFilter(query, field, emp)),
               0, SearchLimit)

\* The response of search_employee.
SearchEmployeeResponse(query, field, rd, db_raises) ==
    IF query = <<>>
    THEN [op |-> "search_employee", success |-> TRUE, q |-> query, field |-> field,
          results |-> <<>>]
    ELSE IF employees /\ db_raises
    THEN [op |-> "search_employee", success |-> FALSE, q |-> query, field |-> field]
    ELSE [op |-> "search_employee", success |-> TRUE, q |-> query, field |-> field,
          results |-> SearchResults(query, field, rd)]

search_employee ==
    /\ \E query \in SearchTerms, field \in FilterFields, fault \in BackendFaults :
        /\ resp' = SearchEmployeeResponse(query, field, fault.rd, fault.db_raises)
        /\ faulted' = (query # <<>> /\ (fault.db_raises \/ fault.rd # "ok"))
    /\ UNCHANGED <<employees, collection, file, now, issued, threads>>

\* ------------------------------------------------------------ process, clock

\* Process start: the module connects to MongoDB, or leaves employees None when no
\* URI is configured or the ping fails.  Both stores outlive the process.
startup ==
    /\ employees' \in BOOLEAN
    /\ resp' = NoResponse
    /\ faulted' = FALSE
    /\ UNCHANGED <<collection, file, now, issued, threads>>

\* Time passes between requests.
Tick ==
    /\ now < MaxNow
    /\ now' = now + 1
    /\ UNCHANGED <<employees, collection, file, resp, faulted, issued, threads>>

Init ==
    /\ employees \in BOOLEAN
    /\ collection = <<>>
    /\ file = [valid |-> TRUE, list |-> <<>>]
    /\ now = 0
    /\ resp = NoResponse
    /\ faulted = FALSE
    /\ issued = {}
    /\ threads = [t \in Threads |-> Idle]

Next ==
    \/ generate_qr
    \/ scan_data
    \/ get_records
    \/ search_employee
    \/ startup
    \/ Tick

Spec == Init /\ [][Next]_vars

\* The handlers get_records and search_employee change resp and faulted only, so the
\* stores and the scan responses reachable without them are those of Spec.
NextScan ==
    \/ generate_qr
    \/ scan_data
    \/ startup
    \/ Tick

SpecScan == Init /\ [][NextScan]_vars

\* Likewise scan_data changes resp and faulted only: the stores and the responses
\* of get_records and search_employee reachable without it are those of Spec.
NextQuery ==
    \/ generate_qr
    \/ get_records
    \/ search_employee

SpecQuery == Init /\ [][NextQuery]_vars

\* ------------------------------------------------- generate_qr, thread by thread

\* The server handles each request in a thread of its own, and nothing locks
\* employees.json: between a thread's read of the file and its write, another
\* thread may read or write it.  A thread's generate_qr on the file backend is two
\* steps, up to its read of the file and from there to its response.

\* generate_qr from the form to employees_list = get_employees_collection() and the
\* record_id.
generate_qr_read(t) ==
    /\ ~employees
    /\ threads[t].pc = "idle"
    /\ \E form \in Forms, random_suffix \in RandomSuffixes, rd \in ReadOutcomes :
        threads' = [threads EXCEPT ![t] =
            [pc |-> "read",
             employees_list |-> get_employees_collection(rd),
             employee_data |-> [EmployeeData(form, now, random_suffix)
                                    EXCEPT !._id = JsonRecordId(now)],
             raised |-> rd # "ok"]]
    /\ UNCHANGED <<employees, collection, file, now, resp, faulted, issued>>

\* generate_qr from employees_list.append(employee_data) to the response.
generate_qr_save(t) ==
    /\ threads[t].pc = "read"
    /\ \E wr \in WriteOutcomes :
        /\ file' = save_employees_collection(
                       append(threads[t].employees_list, threads[t].employee_data), wr)
        /\ GenerateQrSuccess(threads[t].employee_data, threads[t].employee_data._id)
        /\ faulted' = (threads[t].raised \/ wr # "ok")
        /\ threads' = [threads EXCEPT ![t].pc = "answered",
                                      ![t].raised = (threads[t].raised \/ wr # "ok")]
    /\ UNCHANGED <<employees, collection, now>>

InitConc == Init /\ ~employees

NextConc ==
    \/ \E t \in Threads : generate_qr_read(t)
    \/ \E t \in Threads : generate_qr_save(t)
    \/ Tick

SpecConc == InitConc /\ [][NextConc]_vars

\* ------------------------------------------------------------------ claims

Range(list) == {list[i] : i \in 1..Len(list)}

\* The store of the backend the process is using.
PrimaryStore == IF employees THEN collection ELSE StoredList

\* C1: create-then-scan resolves the record, under either backend.  Whenever
\* scan_data has answered a scan of a QR text that generate_qr built, no backend call
\* of the scan raised and the record is still in the store of the backend in use,
\* the answer is success with employee_data holding the name and employee_id of the
\* record the text was built for.
C1_CreateThenScanResolves ==
    (resp.op = "scan_data" /\ ~faulted) =>
        \A b \in issued :
            ( /\ BadgeText(b) = resp.scanned_data
              /\ \E r \in Range(PrimaryStore) :
                    r._id = b.record_id /\ r.name = b.name
                        /\ r.employee_id = b.employee_id )
            => /\ resp.success
               /\ resp.employee_data # None
               /\ resp.employee_data.name = b.name
               /\ resp.employee_data.employee_id = b.employee_id

\* C2: on the file backend no request destroys a stored record: every record of the
\* stored list before a step is in the stored list after it.
C2_StoredRecordsNeverDestroyed ==
    [][(~employees /\ ~employees') =>
           \A r \in Range(StoredList) : r \in Range(StoredList')]_vars

\* C3: no two records of the stored list of the file backend have the same _id.
C3_RecordIdUnique ==
    \A i, j \in 1..Len(StoredList) :
        i # j => StoredList[i]._id # StoredList[j]._id

\* C4: a scan_data response that reports a match holds in employee_data exactly the
\* keys name, employee_id, post, department and joining_date, with the values a
\* stored record has under these keys; dob, created_at and _id are not in it.
C4_ScanResultsRedacted ==
    (resp.op = "scan_data" /\ resp.success /\ resp.employee_data # None) =>
        /\ DOMAIN resp.employee_data =
               {"name", "employee_id", "post", "department", "joining_date"}
        /\ \E r \in Range(collection) \cup Range(StoredList) :
               \A k \in DOMAIN resp.employee_data : resp.employee_data[k] = r[k]

\* C4's case: a match found by the last lookup step, by employee_id in
\* employees.json after MongoDB raised, for a text that names no record_id.
C4_Witness ==
    /\ resp.op = "scan_data"
    /\ resp.employee_data # None
    /\ faulted
    /\ ~ParseScan(resp.scanned_data).record_id.found
    /\ \E r \in Range(StoredList) : r.employee_id = resp.employee_data.employee_id

\* C5: parsing the QR text of a successful generate_qr response with scan_data's
\* parser gives back the record_id and the employee_id the text was built from.
C5_CodecRoundTrip ==
    (resp.op = "generate_qr" /\ resp.success) =>
        /\ ParseScan(resp.qr_code).record_id = Found(resp.record_id)
        /\ ParseScan(resp.qr_code).employee_id =
               Found(resp.employee_data.employee_id)

C7_GetRecordsFiltersOnField ==
    (resp.op = "get_records" /\ resp.success /\ ~faulted /\ resp.search # <<>>) =>
        LET fields == IF resp.filter_by \in SearchFields THEN {resp.filter_by}
                      ELSE SearchFields
            expected == {i \in 1..Len(PrimaryStore) : \E f \in fields :
                            Contains(lower(resp.search), lower(PrimaryStore[i][f]))}
        IN  /\ resp.pagination.total = Cardinality(expected)
            /\ \A k \in 1..Len(resp.employees) :
                   \E i \in expected : PrimaryStore[i] = resp.employees[k]

\* C8: for a non-empty q, search_employee returns min(10, M) records, each one
\* matched by get_records with search = q and filter_by = field, M being the number
\* of records get_records matches.
C8_SearchMatchesGetRecords ==
    (resp.op = "search_employee" /\ resp.success /\ ~faulted /\ resp.q # <<>>) =>
        LET matched == RecordsMatched(resp.q, resp.field, "ok")
        IN  /\ Len(resp.results) <= SearchLimit
            /\ Len(resp.results) = IF Len(matched) < SearchLimit THEN Len(matched)
                                   ELSE SearchLimit
            /\ \A k \in 1..Len(resp.results) : resp.results[k] \in Range(matched)

\* C9: when generate_qr on the file backend has answered success with a record_id,
\* a record with that _id is in the stored list.
C9_SuccessfulCreateIsStored ==
    (resp.op = "generate_qr" /\ resp.success /\ ~employees) =>
        \E r \in Range(StoredList) : r._id = resp.record_id

\* C10: concurrent creates on the file backend lose a record by interleaving, and
\* only so.  Once every thread has answered success and no read or write raised, a
\* thread's record is missing from the stored list only if another thread, whose
\* record is stored, had read the file before that record was written.
C10_LostOnlyByInterleaving ==
    (\A t \in Threads : threads[t].pc = "answered" /\ ~threads[t].raised) =>
        \A t \in Threads :
            threads[t].employee_data \notin Range(StoredList) =>
                \E u \in Threads \ {t} :
                    /\ threads[t].employee_data \notin Range(threads[u].employees_list)
                    /\ threads[u].employee_data \in Range(StoredList)

\* C10's case: two creates have both answered success, nothing raised, and the stored
\* list holds the record of one and not of the other.
C10_Witness ==
    \E t, u \in Threads :
        /\ t # u
        /\ threads[t].pc = "answered" /\ ~threads[t].raised
        /\ threads[u].pc = "answered" /\ ~threads[u].raised
        /\ threads[t].employee_data \notin Range(StoredList)
        /\ threads[u].employee_data \in Range(StoredList)

====
